---------------------------- MODULE Spec2Model ----------------------------
(***************************************************************************)
(* literaturcheck_app.py: reconciliation of bibliography entries against   *)
(* external registries.  The model covers the ISBN normalisation           *)
(* (normalize_isbn, isbn10_to_isbn13, generate_isbn_variants), the         *)
(* retrieval (fetch_all_metadata, query_isbn_sources, query_dnb/zdb), the  *)
(* scorer (vergleiche), the loop of ueberpruefe and highlight_rows.        *)
(*                                                                         *)
(* Strings the code inspects character by character (identifiers) are      *)
(* sequences of one-character strings.  Names with umlauts are written     *)
(* ue/ae: ueberpruefe is the source's überprüfe, eintraege its einträge.   *)
(* An optional value (a record or None) is a sequence of length 0 or 1.    *)
(***************************************************************************)
EXTENDS Integers, Sequences, FiniteSets, TLC

VARIABLES
    eintraege,          \* ueberpruefe: the list of entries (argument)
    langsame_quellen,   \* ueberpruefe: the slow-sources flag (argument)
    antworten,          \* environment: per source, the answers it may give
    pc,                 \* position of ueberpruefe / fetch_all_metadata
    i,                  \* number of entries the for loop has taken
    beste_ergebnisse,   \* ueberpruefe: the verdict rows
    res_list,           \* fetch_all_metadata: results (comparisons)
    md_list,            \* query_isbn_sources: results (records)
    pending,            \* fetch_all_metadata: futures not yet yielded
    plan,               \* query_isbn_sources: calls still to make in a phase
    calls,              \* log of the requests issued for the current entry
    exception,          \* the exception that escaped ueberpruefe, or "none"
    farben,             \* highlight_rows applied to the rows (the rendering)
    isbn_in,            \* normalisation: the argument
    isbn_out            \* normalisation: outcome of the two functions

vars == <<eintraege, langsame_quellen, antworten, pc, i, beste_ergebnisse,
          res_list, md_list, pending, plan, calls, exception, farben,
          isbn_in, isbn_out>>

pipeline_vars == <<eintraege, langsame_quellen, antworten, pc, i,
                   beste_ergebnisse, res_list, md_list, pending, plan, calls,
                   exception, farben>>

-----------------------------------------------------------------------------
(* Characters and ISBN normalisation                                       *)

Ziffern == <<"0", "1", "2", "3", "4", "5", "6", "7", "8", "9">>

ZiffernMenge == {Ziffern[k] : k \in 1..Len(Ziffern)}

\* the character class [0-9Xx] of the re.sub in normalize_isbn
Klasse == ZiffernMenge \cup {"X", "x"}

\* re.sub(r"[^0-9Xx]", "", isbn)
Bereinige(isbn) == SelectSeq(isbn, LAMBDA c : c \in Klasse)

\* str.upper on the class: only x changes
upper(s) == [k \in 1..Len(s) |-> IF s[k] = "x" THEN "X" ELSE s[k]]

\* int(digit) for a digit character
int(c) == (CHOOSE k \in 1..Len(Ziffern) : Ziffern[k] = c) - 1

\* str(check) for 0..9
str(n) == Ziffern[n + 1]

\* the loop of isbn10_to_isbn13: total over prefix[1..k], enumerate index k-1
RECURSIVE total(_, _)
total(prefix, k) ==
    IF k = 0 THEN 0
    ELSE total(prefix, k - 1)
         + int(prefix[k]) * (IF (k - 1) % 2 = 0 THEN 1 ELSE 3)

\* isbn10_to_isbn13: int(digit) raises ValueError on a character that is no
\* digit; the result is [raised, value]
isbn10_to_isbn13(isbn10) ==
    LET prefix == <<"9", "7", "8">> \o SubSeq(isbn10, 1, Len(isbn10) - 1)
    IN  IF \E k \in 1..Len(prefix) : prefix[k] \notin ZiffernMenge
        THEN [raised |-> TRUE, value |-> <<>>]
        ELSE LET check == (10 - (total(prefix, Len(prefix)) % 10)) % 10
             IN  [raised |-> FALSE, value |-> prefix \o <<str(check)>>]

normalize_isbn(isbn) ==
    LET clean == Bereinige(isbn)
    IN  IF Len(clean) = 10 THEN isbn10_to_isbn13(clean)
        ELSE [raised |-> FALSE, value |-> clean]

\* generate_isbn_variants: the set it builds; list(variants) is any order of it
generate_isbn_variants(isbn) ==
    LET clean == upper(Bereinige(isbn))
        v13   == isbn10_to_isbn13(clean)
        core  == IF Len(clean) = 13 /\ SubSeq(clean, 1, 3) = <<"9", "7", "8">>
                 THEN {SubSeq(clean, 4, Len(clean) - 1)} ELSE {}
    IN  IF Len(clean) = 10 /\ v13.raised
        THEN [raised |-> TRUE, value |-> {}]
        ELSE [raised |-> FALSE,
              value  |-> {clean}
                         \cup (IF Len(clean) = 10 THEN {v13.value} ELSE {})
                         \cup core]

-----------------------------------------------------------------------------
(* Entries                                                                 *)

\* parse_eintraege: the id_typ it gives an entry ("skip": the line is dropped).
\* Its loop reads "for zeile in lines", a name the module never binds, while
\* the parameter is zeilen; the entries below are the dicts its body builds.
id_typ(doi_match, isbn_match) ==
    IF doi_match THEN "DOI" ELSE IF isbn_match THEN "ISBN" ELSE "skip"

Doi    == <<"1", "0", ".", "1", "/", "a">>
Isbn13 == <<"9", "7", "8", "3", "7", "9", "6", "5", "1", "9", "1", "4", "7">>
Isbn10 == <<"3", "7", "9", "6", "5", "1", "9", "1", "4", "4">>

\* the dict parse_eintraege appends
Eintrag(typ, id, titel) ==
    [typ |-> typ, id |-> id, autor |-> "Smith", titel |-> titel]

\* the entries a run may hold: the two kinds parse_eintraege produces, and the
\* lower-case kinds ueberpruefe and fetch_all_metadata compare typ with
Eintraege ==
    { Eintrag(id_typ(TRUE, FALSE), Doi, "Sample Title"),
      Eintrag(id_typ(FALSE, TRUE), Isbn13, "Sample Title"),
      Eintrag("doi", Doi, "Sample Title"),
      Eintrag("isbn", Isbn13, "Sample Title"),
      Eintrag("isbn", Isbn10, "") }

MaxEntries == 2

RECURSIVE Listen(_)
Listen(n) ==
    IF n = 0 THEN {<<>>}
    ELSE Listen(n - 1)
         \cup {Append(l, e) : l \in {m \in Listen(n - 1) : Len(m) = n - 1},
                              e \in Eintraege}

-----------------------------------------------------------------------------
(* Sources                                                                 *)

DoiQuellen  == <<"CrossRef", "DOI REST">>
IsbnQuellen == <<"Google Books", "OpenLibrary">>
Quellen     == {"CrossRef", "DOI REST", "Google Books", "OpenLibrary",
                "WorldCat", "DNB", "ZDB"}

None == <<>>

\* A record an adapter returns, reduced to what vergleiche reads of it:
\* ratio = fuzz.token_sort_ratio of its titel with the entry's, autor_ratio =
\* the largest fuzz.partial_ratio over its autoren, felder_ok = FALSE when
\* titel or an author is not a string (a JSON null), so that .lower() raises.
Datensatz(quelle, ratio, autor_ratio, felder_ok) ==
    <<[quelle |-> quelle, ratio |-> ratio, autor_ratio |-> autor_ratio,
       felder_ok |-> felder_ok, isbn_variant |-> <<>>]>>

RatioWerte == {69, 70, 100}
AutorWerte == {59, 60}

\* every answer of a source: no record (also an error, a timeout, a bad
\* status: the adapters return None for all of them) or a record
AntwortenReich ==
    [q \in Quellen |->
        CASE q \in {"CrossRef", "DOI REST"} ->
                {None, Datensatz(q, 100, 60, FALSE)}
                \cup {Datensatz(q, r, a, TRUE) : r \in RatioWerte, a \in AutorWerte}
          [] q \in {"Google Books", "OpenLibrary"} ->
                {None, Datensatz(q, 100, 60, TRUE), Datensatz(q, 100, 60, FALSE)}
          [] q = "WorldCat" -> {None, Datensatz(q, 100, 60, TRUE)}
          [] OTHER -> {None, Datensatz(q, 70, 59, TRUE)}]

\* a run in which the slow registries are down
AntwortenKarg ==
    [q \in Quellen |->
        CASE q \in {"CrossRef", "DOI REST"} ->
                {None, Datensatz(q, 100, 60, TRUE), Datensatz(q, 100, 60, FALSE)}
          [] q \in {"Google Books", "OpenLibrary"} ->
                {None, Datensatz(q, 100, 60, TRUE), Datensatz(q, 100, 60, FALSE)}
          [] OTHER -> {None}]

\* one request, as logged: art is "doi", "isbn" or "titel"
Call(quelle, art, variant) == [quelle |-> quelle, art |-> art, variant |-> variant]

\* query_dnb with the "if titel:" fallback left out
query_dnb_ohne_titel(quelle, isbn, titel, r1, r2) ==
    LET erst == IF isbn # None THEN <<Call(quelle, "isbn", isbn)>> ELSE <<>>
    IN  [recs |-> IF isbn # None THEN r1 ELSE None, calls |-> erst]

\* query_dnb / query_zdb (they differ in the endpoint only): r1 answers the
\* ISBN request, r2 the title request.  isbn is None for a title-only search.
query_dnb(quelle, isbn, titel, r1, r2) ==
    LET erst == IF isbn # None THEN <<Call(quelle, "isbn", isbn)>> ELSE <<>>
    IN  IF isbn # None /\ r1 # None
        THEN [recs |-> r1, calls |-> erst]
        ELSE IF titel # ""
             THEN [recs |-> r2, calls |-> erst \o <<Call(quelle, "titel", <<>>)>>]
             ELSE [recs |-> None, calls |-> erst]

\* get_metadata_dnb / get_metadata_zdb: the best of the records, or None
get_metadata_dnb(quelle, eintrag, r1, r2) ==
    query_dnb(quelle, IF eintrag.typ = "isbn" THEN eintrag.id ELSE None,
              eintrag.titel, r1, r2)

-----------------------------------------------------------------------------
(* Scoring and classification                                              *)

keine == [quelle |-> "keine", titel_score |-> 0, autor_match |-> FALSE]

\* vergleiche: [raised, value]; raised is the AttributeError of .lower()
vergleiche(eintrag, metadata) ==
    IF metadata = None THEN [raised |-> FALSE, value |-> keine]
    ELSE LET md == metadata[1]
             titel_score == md.ratio
             autor_match == md.autor_ratio >= 60
             combined_score == IF autor_match THEN titel_score + 15
                               ELSE titel_score
         IN  IF ~md.felder_ok THEN [raised |-> TRUE, value |-> keine]
             ELSE [raised |-> FALSE,
                   value  |-> [quelle |-> md.quelle,
                               titel_score |-> combined_score,
                               autor_match |-> autor_match]]

\* max(res_list, key=lambda r: r["titel_score"]): the first of the largest
best_of(list) ==
    LET top == CHOOSE k \in 1..Len(list) :
                   /\ \A j \in 1..Len(list) :
                          list[j].titel_score <= list[k].titel_score
                   /\ \A j \in 1..(k - 1) :
                          list[j].titel_score < list[k].titel_score
    IN  list[top]

\* the row ueberpruefe appends for an entry
Zeile(eintrag, list) ==
    IF list # <<>>
    THEN LET best == best_of(list)
         IN  [Titel_Input |-> eintrag.titel, Autor_Input |-> eintrag.autor,
              ID |-> eintrag.id, Quelle_beste |-> best.quelle,
              Titel_Aehnlichkeit |-> best.titel_score,
              Autor_in_gefunden |-> IF best.autor_match THEN "Ja" ELSE "Nein"]
    ELSE [Titel_Input |-> eintrag.titel, Autor_Input |-> eintrag.autor,
          ID |-> eintrag.id, Quelle_beste |-> "keine",
          Titel_Aehnlichkeit |-> 0, Autor_in_gefunden |-> "Nein"]

\* the row put in front instead of at the end
ergebnis_voranstellen(liste, row) == <<row>> \o liste

\* beste_ergebnisse.append(row)
ergebnis_anhaengen(liste, row) == Append(liste, row)

\* highlight_rows with the one threshold 85 for both colours
highlight_rows_85(row) ==
    IF row.Titel_Aehnlichkeit >= 85 /\ row.Autor_in_gefunden = "Ja"
    THEN "#c8e6c9"
    ELSE IF row.Titel_Aehnlichkeit >= 85 \/ row.Autor_in_gefunden = "Ja"
         THEN "#fff9c4"
         ELSE "#ffcdd2"

\* highlight_rows: the background colour of a row
highlight_rows(row) ==
    IF row.Titel_Aehnlichkeit >= 85 /\ row.Autor_in_gefunden = "Ja"
    THEN "#c8e6c9"
    ELSE IF row.Titel_Aehnlichkeit >= 70 \/ row.Autor_in_gefunden = "Ja"
         THEN "#fff9c4"
         ELSE "#ffcdd2"

-----------------------------------------------------------------------------
(* The pipeline                                                            *)

eingaben_unveraendert ==
    UNCHANGED <<eintraege, langsame_quellen, antworten, isbn_in, isbn_out>>

\* an exception leaves ueberpruefe: nothing catches it there or in main
Abbruch(name) ==
    /\ pc' = "aborted"
    /\ exception' = name
    /\ UNCHANGED <<res_list, md_list, pending, plan>>

\* the orders list(variants) may give the set
Reihenfolgen(S) ==
    {f \in [1..Cardinality(S) -> S] :
        \A a, b \in 1..Cardinality(S) : a # b => f[a] # f[b]}

\* the calls of the variant loop: per variant Google Books, OpenLibrary and,
\* with langsame, WorldCat
VariantenPlan(order, langsame) ==
    LET je == IF langsame THEN IsbnQuellen \o <<"WorldCat">> ELSE IsbnQuellen
        n  == Len(je)
    IN  [k \in 1..(Len(order) * n) |->
            [quelle |-> je[((k - 1) % n) + 1],
             variant |-> order[((k - 1) \div n) + 1]]]

SruPlan == <<[quelle |-> "DNB", variant |-> <<>>],
             [quelle |-> "ZDB", variant |-> <<>>]>>

\* query_isbn_sources, up to its first call: generate_isbn_variants is
\* outside every try
query_isbn_sources(isbn, titel, langsame) ==
    LET variants == generate_isbn_variants(isbn)
    IN  IF variants.raised
        THEN Abbruch("ValueError") /\ calls' = <<>>
        ELSE \E order \in Reihenfolgen(variants.value) :
                /\ plan' = VariantenPlan(order, langsame)
                /\ pc' = "varianten"
                /\ md_list' = <<>>
                /\ calls' = <<>>
                /\ UNCHANGED <<res_list, pending, exception>>

\* fetch_all_metadata, up to its first wait: ThreadPoolExecutor(max_workers=0)
\* raises ValueError; submit starts every source's call
fetch_all_metadata(eintrag, quellen, langsame) ==
    IF eintrag.typ = "isbn"
    THEN query_isbn_sources(eintrag.id, eintrag.titel, langsame)
    ELSE IF Len(quellen) = 0
         THEN Abbruch("ValueError") /\ calls' = <<>>
         ELSE /\ pending' = {quellen[k] : k \in 1..Len(quellen)}
              /\ calls' = [k \in 1..Len(quellen) |->
                              Call(quellen[k], "doi", eintrag.id)]
              /\ res_list' = <<>>
              /\ pc' = "as_completed"
              /\ UNCHANGED <<md_list, plan, exception>>

\* ueberpruefe: the for loop takes the next entry and calls fetch_all_metadata
ueberpruefe_eintrag ==
    /\ pc = "loop"
    /\ i < Len(eintraege)
    /\ i' = i + 1
    /\ LET eintrag == eintraege[i + 1]
       IN  IF eintrag.typ = "doi"
           THEN fetch_all_metadata(eintrag, DoiQuellen, FALSE)
           ELSE fetch_all_metadata(eintrag, <<>>, langsame_quellen)
    /\ UNCHANGED <<beste_ergebnisse, farben>>
    /\ eingaben_unveraendert

\* fetch_all_metadata: as_completed yields one more future, in any order;
\* a raising vergleiche is swallowed by the bare except
as_completed_next ==
    /\ pc = "as_completed"
    /\ \E q \in pending : \E md \in antworten[q] :
          LET v == vergleiche(eintraege[i], md)
          IN  /\ res_list' = IF v.raised THEN res_list
                             ELSE Append(res_list, v.value)
              /\ pending' = pending \ {q}
              /\ pc' = IF pending = {q} THEN "klassifiziere" ELSE "as_completed"
    /\ UNCHANGED <<i, beste_ergebnisse, md_list, plan, calls, exception, farben>>
    /\ eingaben_unveraendert

\* query_isbn_sources, 1): one call of the variant loop
variant_call ==
    /\ pc = "varianten"
    /\ LET c == Head(plan)
       IN  /\ \E md \in antworten[c.quelle] :
                md_list' = IF md # None
                           THEN Append(md_list,
                                       [md[1] EXCEPT !.isbn_variant = c.variant])
                           ELSE md_list
           /\ calls' = Append(calls, Call(c.quelle, "isbn", c.variant))
    /\ IF Tail(plan) # <<>>
       THEN plan' = Tail(plan) /\ pc' = "varianten"
       ELSE IF langsame_quellen
            THEN plan' = SruPlan /\ pc' = "dnb_zdb"
            ELSE plan' = <<>> /\ pc' = "vergleiche"
    /\ UNCHANGED <<i, beste_ergebnisse, res_list, pending, exception, farben>>
    /\ eingaben_unveraendert

\* query_isbn_sources, 2): get_metadata_dnb, then get_metadata_zdb, by ISBN
\* with the title fallback of query_dnb / query_zdb
dnb_zdb_call ==
    /\ pc = "dnb_zdb"
    /\ LET c == Head(plan)
           eintrag == [eintraege[i] EXCEPT !.typ = "isbn", !.autor = ""]
       IN  \E r1, r2 \in antworten[c.quelle] :
              LET q == get_metadata_dnb(c.quelle, eintrag, r1, r2)
                  neu == IF q.recs # None THEN Append(md_list, q.recs[1])
                         ELSE md_list
              IN  /\ md_list' = neu
                  /\ calls' = calls \o q.calls
                  /\ IF Tail(plan) # <<>>
                     THEN plan' = Tail(plan) /\ pc' = "dnb_zdb"
                     ELSE IF neu = <<>> /\ eintraege[i].titel # ""
                             /\ langsame_quellen
                          THEN plan' = SruPlan /\ pc' = "titelsuche"
                          ELSE plan' = <<>> /\ pc' = "vergleiche"
    /\ UNCHANGED <<i, beste_ergebnisse, res_list, pending, exception, farben>>
    /\ eingaben_unveraendert

\* query_isbn_sources, 3): the title-only search, DNB then ZDB
titel_call ==
    /\ pc = "titelsuche"
    /\ LET c == Head(plan)
           eintrag == [eintraege[i] EXCEPT !.typ = "titel", !.id = None,
                                           !.autor = ""]
       IN  \E r2 \in antworten[c.quelle] :
              LET q == get_metadata_dnb(c.quelle, eintrag, None, r2)
              IN  /\ md_list' = IF q.recs # None
                                THEN Append(md_list, q.recs[1]) ELSE md_list
                  /\ calls' = calls \o q.calls
    /\ IF Tail(plan) # <<>>
       THEN plan' = Tail(plan) /\ pc' = "titelsuche"
       ELSE plan' = <<>> /\ pc' = "vergleiche"
    /\ UNCHANGED <<i, beste_ergebnisse, res_list, pending, exception, farben>>
    /\ eingaben_unveraendert

\* fetch_all_metadata, ISBN branch: [vergleiche(eintrag, md) for md in md_list]
\* stands in no try
vergleiche_liste ==
    /\ pc = "vergleiche"
    /\ LET vs == [k \in 1..Len(md_list) |-> vergleiche(eintraege[i], <<md_list[k]>>)]
       IN  IF \E k \in 1..Len(vs) : vs[k].raised
           THEN /\ pc' = "aborted"
                /\ exception' = "AttributeError"
                /\ res_list' = <<>>
           ELSE /\ pc' = "klassifiziere"
                /\ exception' = exception
                /\ res_list' = [k \in 1..Len(vs) |-> vs[k].value]
    /\ UNCHANGED <<i, beste_ergebnisse, md_list, pending, plan, calls, farben>>
    /\ eingaben_unveraendert

\* ueberpruefe: the best comparison of the entry becomes its row
klassifiziere ==
    /\ pc = "klassifiziere"
    /\ beste_ergebnisse' =
           ergebnis_anhaengen(beste_ergebnisse, Zeile(eintraege[i], res_list))
    /\ pc' = "loop"
    /\ UNCHANGED <<i, res_list, md_list, pending, plan, calls, exception, farben>>
    /\ eingaben_unveraendert

\* ueberpruefe, after the loop: the table is rendered with highlight_rows
anzeigen ==
    /\ pc = "loop"
    /\ i = Len(eintraege)
    /\ farben' = [k \in 1..Len(beste_ergebnisse) |->
                     highlight_rows(beste_ergebnisse[k])]
    /\ pc' = "done"
    /\ UNCHANGED <<i, beste_ergebnisse, res_list, md_list, pending, plan,
                   calls, exception>>
    /\ eingaben_unveraendert

InitPipeline ==
    /\ pc = "loop"
    /\ i = 0
    /\ beste_ergebnisse = <<>>
    /\ res_list = <<>>
    /\ md_list = <<>>
    /\ pending = {}
    /\ plan = <<>>
    /\ calls = <<>>
    /\ exception = "none"
    /\ farben = <<>>

\* a run of ueberpruefe over up to MaxEntries entries
Init ==
    /\ eintraege \in Listen(MaxEntries)
    /\ langsame_quellen \in BOOLEAN
    /\ antworten = AntwortenKarg
    /\ InitPipeline
    /\ isbn_in = <<>>
    /\ isbn_out = <<>>

\* a run of ueberpruefe over one entry, every source answering freely
InitQuellen ==
    /\ eintraege \in {<<e>> : e \in Eintraege}
    /\ langsame_quellen \in BOOLEAN
    /\ antworten = AntwortenReich
    /\ InitPipeline
    /\ isbn_in = <<>>
    /\ isbn_out = <<>>

Next ==
    \/ ueberpruefe_eintrag
    \/ as_completed_next
    \/ variant_call
    \/ dnb_zdb_call
    \/ titel_call
    \/ vergleiche_liste
    \/ klassifiziere
    \/ anzeigen

Spec == Init /\ [][Next]_vars

SpecQuellen == InitQuellen /\ [][Next]_vars

-----------------------------------------------------------------------------
(* The normalisation on its own                                            *)

IsbnX == <<"0", "8", "0", "4", "4", "2", "9", "5", "7", "X">>

IsbnBasis == {Isbn10, Isbn13, IsbnX, <<"1", "2", "3", "4", "5">>}

\* the arguments: ISBNs of length 5, 10 and 13 over [0-9Xx], and each with
\* one character replaced by X, x or 0
IsbnEingaben ==
    IsbnBasis
    \cup UNION {{[s EXCEPT ![p] = c] : p \in 1..Len(s), c \in {"X", "x", "0"}} :
                 s \in IsbnBasis}

\* one call of normalize_isbn and of generate_isbn_variants on the argument
normalisiere ==
    /\ isbn_out = <<>>
    /\ isbn_out' = <<[normalize |-> normalize_isbn(isbn_in),
                      variants  |-> generate_isbn_variants(isbn_in)]>>
    /\ UNCHANGED isbn_in
    /\ UNCHANGED pipeline_vars

InitIsbn ==
    /\ isbn_in \in IsbnEingaben
    /\ isbn_out = <<>>
    /\ eintraege = <<>>
    /\ langsame_quellen = FALSE
    /\ antworten = AntwortenKarg
    /\ InitPipeline

NextIsbn == normalisiere

SpecIsbn == InitIsbn /\ [][NextIsbn]_vars

-----------------------------------------------------------------------------
(* Properties                                                              *)

Match        == "#c8e6c9"
PartialMatch == "#fff9c4"
NoMatch      == "#ffcdd2"

\* the sources a request of the current entry went to
GerufeneQuellen == {calls[k].quelle : k \in 1..Len(calls)}

Titelsuche(q) ==
    \E k \in 1..Len(calls) : calls[k].quelle = q /\ calls[k].art = "titel"

NurParseTypen ==
    \A k \in 1..Len(eintraege) : eintraege[k].typ \in {"DOI", "ISBN"}

\* C1: over a list of entries as parse_eintraege produces them (typ "DOI" or
\* "ISBN"), no exception leaves ueberpruefe, and when it ends every entry has
\* its row.
C1_NeverAborts ==
    NurParseTypen =>
        /\ pc # "aborted"
        /\ pc = "done" => Len(beste_ergebnisse) = Len(eintraege)

\* C2: the rows are in the order of the entries: the k-th row is the row of
\* the k-th entry, whatever the order in which the source calls completed,
\* and at the end there is a row for every entry.
C2_OrderPreserved ==
    /\ Len(beste_ergebnisse) <= Len(eintraege)
    /\ \A k \in 1..Len(beste_ergebnisse) :
          /\ beste_ergebnisse[k].ID = eintraege[k].id
          /\ beste_ergebnisse[k].Titel_Input = eintraege[k].titel
    /\ pc = "done" => Len(beste_ergebnisse) = Len(eintraege)

\* two rows of different entries, the second entry's DOI sources having
\* completed against the order of submission
C2_Witness ==
    /\ pc = "done"
    /\ Len(beste_ergebnisse) = 2
    /\ beste_ergebnisse[1].ID # beste_ergebnisse[2].ID
    /\ eintraege[2].typ = "doi"
    /\ Len(res_list) = 2
    /\ res_list[1].quelle = "DOI REST"
    /\ res_list[2].quelle = "CrossRef"

\* C3: when the retrieval of an entry is over, an entry parse_eintraege typed
\* "DOI" had both DOI adapters called and no ISBN adapter, and an entry typed
\* "ISBN" had the ISBN adapters called and no DOI adapter.
C3_AdaptersByKind ==
    (pc \in {"klassifiziere", "aborted"} /\ i >= 1) =>
        /\ eintraege[i].typ = "DOI" =>
              /\ {"CrossRef", "DOI REST"} \subseteq GerufeneQuellen
              /\ GerufeneQuellen \subseteq {"CrossRef", "DOI REST"}
        /\ eintraege[i].typ = "ISBN" =>
              /\ {"Google Books", "OpenLibrary"} \subseteq GerufeneQuellen
              /\ GerufeneQuellen \cap {"CrossRef", "DOI REST"} = {}

\* C4: the list fetch_all_metadata returns holds exactly one comparison per
\* source that was called for the entry, a source without a record included.
C4_OnePerSource ==
    pc = "klassifiziere" => Len(res_list) = Cardinality(GerufeneQuellen)

\* C5: in the list query_isbn_sources returns no two records carry the same
\* source name.
C5_DedupBySource ==
    pc = "vergleiche" =>
        \A a, b \in 1..Len(md_list) :
            a # b => md_list[a].quelle # md_list[b].quelle

\* C6: when both DOI sources give a record and the two comparisons are equal
\* in (titel_score, autor_match), the row names the source submitted first.
C6_TieBreakEarliest ==
    ( /\ pc \in {"loop", "done"}
      /\ i >= 1
      /\ eintraege[i].typ = "doi"
      /\ Len(res_list) = 2
      /\ res_list[1].quelle # "keine"
      /\ res_list[2].quelle # "keine"
      /\ res_list[1].titel_score = res_list[2].titel_score
      /\ res_list[1].autor_match = res_list[2].autor_match )
    => beste_ergebnisse[i].Quelle_beste = DoiQuellen[1]

\* C7: the titel_score of every comparison and the score of every row lie in
\* 0..100.
C7_ScoreRange ==
    /\ \A k \in 1..Len(res_list) : res_list[k].titel_score \in 0..100
    /\ \A k \in 1..Len(beste_ergebnisse) :
          beste_ergebnisse[k].Titel_Aehnlichkeit \in 0..100

\* C8 as stated: a row is Match iff score >= 85 and the author was found,
\* PartialMatch iff exactly one of the two holds, NoMatch otherwise.
C8_Thresholds ==
    pc = "done" =>
        \A k \in 1..Len(farben) :
            LET hoch  == beste_ergebnisse[k].Titel_Aehnlichkeit >= 85
                autor == beste_ergebnisse[k].Autor_in_gefunden = "Ja"
            IN  /\ farben[k] = Match <=> (hoch /\ autor)
                /\ farben[k] = PartialMatch <=> (hoch # autor)
                /\ farben[k] = NoMatch <=> (~hoch /\ ~autor)

\* C8: every row has a status; it is Match iff score >= 85 and the author was
\* found, PartialMatch iff it is not Match and (score >= 70 or the author was
\* found), and NoMatch iff score < 70 and the author was not found.
C8_ThresholdsAmended ==
    pc = "done" =>
        /\ Len(farben) = Len(beste_ergebnisse)
        /\ \A k \in 1..Len(farben) :
              LET score == beste_ergebnisse[k].Titel_Aehnlichkeit
                  autor == beste_ergebnisse[k].Autor_in_gefunden = "Ja"
              IN  /\ farben[k] = Match <=> (score >= 85 /\ autor)
                  /\ farben[k] = PartialMatch <=>
                        (~(score >= 85 /\ autor) /\ (score >= 70 \/ autor))
                  /\ farben[k] = NoMatch <=> (score < 70 /\ ~autor)

\* a rendered row with a score in 70..84 and no author found
C8_Witness ==
    /\ pc = "done"
    /\ \E k \in 1..Len(farben) :
          /\ beste_ergebnisse[k].Titel_Aehnlichkeit \in 70..84
          /\ beste_ergebnisse[k].Autor_in_gefunden = "Nein"
          /\ farben[k] = PartialMatch

\* C9 as stated: when query_isbn_sources, called with a non-empty title,
\* returns the empty result, it has sent a title query to DNB and to ZDB,
\* whatever langsame is.
C9_TitleFallback ==
    (pc = "vergleiche" /\ eintraege[i].titel # "" /\ md_list = <<>>) =>
        Titelsuche("DNB") /\ Titelsuche("ZDB")

\* C9: when query_isbn_sources, called with a non-empty title and with
\* langsame set, returns the empty result, it has sent a title query to DNB
\* and to ZDB; with langsame unset it sends DNB and ZDB no request at all.
C9_TitleFallbackLangsame ==
    pc = "vergleiche" =>
        /\ (langsame_quellen /\ eintraege[i].titel # "" /\ md_list = <<>>) =>
              Titelsuche("DNB") /\ Titelsuche("ZDB")
        /\ ~langsame_quellen => GerufeneQuellen \cap {"DNB", "ZDB"} = {}

\* the empty result returned with langsame set, after the title queries
C9_Witness ==
    /\ pc = "vergleiche"
    /\ langsame_quellen
    /\ eintraege[i].titel # ""
    /\ md_list = <<>>
    /\ Titelsuche("DNB")
    /\ Titelsuche("ZDB")

\* a value the claim calls malformed: its length is neither 10 nor 13, or it
\* has 10 characters that are not nine digits and a check character
Malformed(isbn) ==
    \/ Len(isbn) \notin {10, 13}
    \/ /\ Len(isbn) = 10
       /\ \/ \E k \in 1..9 : isbn[k] \notin ZiffernMenge
          \/ isbn[10] \notin ZiffernMenge \cup {"X", "x"}

\* C10: on a string over [0-9Xx] normalize_isbn and generate_isbn_variants
\* return without raising, and a malformed value comes back unchanged, as the
\* only variant.
C10_NormalizeTotal ==
    isbn_out # <<>> =>
        LET out == isbn_out[1]
        IN  /\ ~out.normalize.raised
            /\ ~out.variants.raised
            /\ Malformed(isbn_in) =>
                  /\ out.normalize.value = isbn_in
                  /\ out.variants.value = {isbn_in}

=============================================================================
